---- MODULE Spec2Model ----
(***************************************************************************)
(* Field-enrichment engines of Logprep:                                    *)
(*   - GenericResolver  (logprep/processor/generic_resolver/processor.py)  *)
(*   - TemplateReplacer (logprep/processor/template_replacer/processor.py) *)
(*                                                                         *)
(* Python strings are sequences of one-character strings, so that split,   *)
(* join, substring tests and pattern matching are computed, not assumed.   *)
(* Python values are tagged records:                                       *)
(*   [t |-> "str", s |-> chars]      [t |-> "int", n |-> number]            *)
(*   [t |-> "list", l |-> items, o |-> object identity]                    *)
(*   [t |-> "dict", d |-> function from keys to values]    [t |-> "none"]  *)
(* The identity o of a list tells aliases of one list object apart from    *)
(* equal copies: a mutation of the object shows through every alias.       *)
(***************************************************************************)
EXTENDS Integers, Sequences, FiniteSets, TLC

VARIABLES
    hyperscan_databases,  \* GenericResolver._hyperscan_databases: file_name -> [db, value_mapping]
    disk,                 \* persistence directory: [dir |-> exists, files |-> path -> blob,
                          \*   fault |-> the operation the file system refuses with EACCES]
    event,                \* the event document handed to process()
    pending,              \* rules of get_matching_rules(event) not yet applied by process()
    phase,                \* "idle" | "running" | "done": position of process()
    raised,               \* exception that ended process(): [type, fields]
    applied,              \* per applied rule of the current process(): what _apply_rules did
    io_done,              \* history, kept by LifetimeSpec: file_name -> the steps (load,
                          \*   compile, save) the worker has made for the identity so far
    t_config,             \* TemplateReplacer: pattern given to __init__ (+ template entries)
    t_mapping,            \* TemplateReplacer._mapping
    t_state,              \* "new" | "ready" | "failed": result of TemplateReplacer.__init__
    t_event,              \* the event document handed to TemplateReplacer.process()
    t_raised,             \* exception that ended the last TemplateReplacer call
    t_prev,               \* the event as it was handed to the last TemplateReplacer._apply_rules
    race_rule,            \* RaceSpec: the rule that the worker processes use for the first time
    workers               \* RaceSpec: per worker process, its position in
                          \*   _get_hyperscan_database(race_rule) and its locals and cache

rvars == <<hyperscan_databases, disk, event, pending, phase, raised, applied, io_done>>
tvars == <<t_config, t_mapping, t_state, t_event, t_raised, t_prev>>
wvars == <<race_rule, workers>>
vars == <<rvars, tvars, wvars>>

-----------------------------------------------------------------------------
(* Python values *)

PyNone == [t |-> "none"]
PyStr(s) == [t |-> "str", s |-> s]
PyInt(n) == [t |-> "int", n |-> n]
PyList(l, o) == [t |-> "list", l |-> l, o |-> o]
PyDict(d) == [t |-> "dict", d |-> d]
EmptyDict == PyDict(<<>>)

IsDict(v) == v.t = "dict"
IsList(v) == v.t = "list"
IsStr(v) == v.t = "str"

\* Python truth value of v ("if src_val:")
Truthy(v) ==
    CASE v.t = "none" -> FALSE
      [] v.t = "str" -> v.s # <<>>
      [] v.t = "int" -> v.n # 0
      [] v.t = "list" -> v.l # <<>>
      [] v.t = "dict" -> DOMAIN v.d # {}

\* d[k] = v on a Python dict
Put(d, k, v) == [j \in DOMAIN d \cup {k} |-> IF j = k THEN v ELSE d[j]]

\* the value at a key path (every prefix of the path is a dict)
RECURSIVE GetAt(_, _)
GetAt(doc, path) ==
    IF path = <<>> THEN doc ELSE GetAt(doc.d[Head(path)], Tail(path))

\* the document with the value at a key path replaced (or created)
RECURSIVE SetAt(_, _, _)
SetAt(doc, path, v) ==
    IF path = <<>> THEN v
    ELSE PyDict(Put(doc.d, Head(path),
                    IF Len(path) = 1 THEN v
                    ELSE SetAt(doc.d[Head(path)], Tail(path), v)))

\* identities of the list objects reachable from a value
RECURSIVE Oids(_)
Oids(v) ==
    CASE v.t = "list" -> {v.o}
      [] v.t = "dict" -> UNION {Oids(v.d[k]) : k \in DOMAIN v.d}
      [] OTHER -> {}

SetMax(S) == IF S = {} THEN 0 ELSE CHOOSE m \in S : \A x \in S : x <= m

\* list.append(item) on the list object o: seen through every alias of it
RECURSIVE AppendObj(_, _, _)
AppendObj(v, o, item) ==
    CASE v.t = "list" -> IF v.o = o THEN PyList(Append(v.l, item), o) ELSE v
      [] v.t = "dict" -> PyDict([k \in DOMAIN v.d |-> AppendObj(v.d[k], o, item)])
      [] OTHER -> v

\* "item in list"
InList(item, lst) == \E i \in 1..Len(lst.l) : lst.l[i] = item

-----------------------------------------------------------------------------
(* Python strings *)

Range(s) == {s[i] : i \in 1..Len(s)}

\* xs[-1]
Last(xs) == xs[Len(xs)]

\* str.split(sep) for a one-character separator
RECURSIVE Split(_, _)
Split(s, sep) ==
    IF sep \notin Range(s) THEN <<s>>
    ELSE LET i == CHOOSE j \in 1..Len(s) : s[j] = sep /\ \A h \in 1..(j - 1) : s[h] # sep
         IN  <<SubSeq(s, 1, i - 1)>> \o Split(SubSeq(s, i + 1, Len(s)), sep)

\* sep.join(parts)
RECURSIVE Join(_, _)
Join(sep, parts) ==
    IF parts = <<>> THEN <<>>
    ELSE IF Len(parts) = 1 THEN parts[1]
    ELSE parts[1] \o sep \o Join(sep, Tail(parts))

\* "sub in s" for two strings
IsSubstring(sub, s) ==
    \E i \in 1..(Len(s) - Len(sub) + 1) : SubSeq(s, i, i + Len(sub) - 1) = sub

\* Python slices of a list: xs[:n], xs[n:], xs[:-n], xs[-n:]  (n >= 0; -0 is 0)
SliceTo(xs, n) == SubSeq(xs, 1, IF n < Len(xs) THEN n ELSE Len(xs))
SliceFrom(xs, n) == SubSeq(xs, (IF n < Len(xs) THEN n ELSE Len(xs)) + 1, Len(xs))
SliceToNeg(xs, n) ==
    IF n = 0 THEN <<>> ELSE SubSeq(xs, 1, IF n < Len(xs) THEN Len(xs) - n ELSE 0)
SliceFromNeg(xs, n) ==
    IF n = 0 THEN xs ELSE SubSeq(xs, (IF n < Len(xs) THEN Len(xs) - n ELSE 0) + 1, Len(xs))

-----------------------------------------------------------------------------
(* The hyperscan library, as far as the resolver uses it.  A pattern is a   *)
(* literal with an optional leading ^ and an optional trailing $.           *)

HS_FLAG_SINGLEMATCH == "SINGLEMATCH"
HS_FLAG_CASELESS == "CASELESS"

LowerChar(c) ==
    CASE c = "A" -> "a" [] c = "B" -> "b" [] c = "C" -> "c" [] OTHER -> c

Lower(s) == [i \in 1..Len(s) |-> LowerChar(s[i])]

\* the end offsets at which the expression matches in data
MatchEnds(expression, flags, data) ==
    LET starts == expression # <<>> /\ Head(expression) = "^"
        ends   == expression # <<>> /\ expression[Len(expression)] = "$"
        lit    == SubSeq(expression, IF starts THEN 2 ELSE 1,
                         IF ends THEN Len(expression) - 1 ELSE Len(expression))
        fold(x) == IF HS_FLAG_CASELESS \in flags THEN Lower(x) ELSE x
    IN  {i + Len(lit) - 1 : i \in
            {j \in 1..(Len(data) - Len(lit) + 1) :
                /\ SubSeq(fold(data), j, j + Len(lit) - 1) = fold(lit)
                /\ starts => j = 1
                /\ ends => j + Len(lit) - 1 = Len(data)}}

\* Database(): no pattern compiled yet
Database == [expressions |-> <<>>, ids |-> <<>>, flags |-> <<>>]

\* Database.compile(expressions=, ids=, elements=, flags=)
compile(expressions, ids, elements, flags) ==
    [expressions |-> SubSeq(expressions, 1, elements),
     ids |-> SubSeq(ids, 1, elements),
     flags |-> SubSeq(flags, 1, elements)]

\* dumpb(database): the serialized blob;  loadb(blob): the database of a blob
dumpb(database) ==
    [magic |-> "HSDB", size |-> Len(database.ids),
     patterns |-> [k \in 1..Len(database.ids) |->
                     <<database.expressions[k], database.ids[k], database.flags[k]>>]]
loadb(data) ==
    [expressions |-> [k \in 1..Len(data.patterns) |-> data.patterns[k][1]],
     ids |-> [k \in 1..Len(data.patterns) |-> data.patterns[k][2]],
     flags |-> [k \in 1..Len(data.patterns) |-> data.patterns[k][3]]]

\* a slip: loadb takes whatever bytes it is given
AnyBlob(data) == TRUE

\* loadb(data) accepts data: it has the header and the size the header
\* states; loadb raises hyperscan.error for anything else
Deserializable(data) == data.magic = "HSDB" /\ Len(data.patterns) = data.size

\* the orders in which a database may report its patterns within one scan
RECURSIVE Perms(_)
Perms(S) ==
    IF S = {} THEN {<<>>}
    ELSE UNION {{<<x>> \o p : p \in Perms(S \ {x})} : x \in S}

ScanOrders(n) == Perms(1..n)

\* n copies of x
Repeat(x, n) == [i \in 1..n |-> x]

\* Database.scan(data, match_event_handler=on_match): the ids handed to
\* on_match, in the order the automaton reports them
RECURSIVE scan(_, _, _)
scan(db, data, order) ==
    IF order = <<>> THEN <<>>
    ELSE LET k    == Head(order)
             ends == IF k \in 1..Len(db.ids)
                     THEN MatchEnds(db.expressions[k], db.flags[k], data) ELSE {}
             hits == IF ends = {} THEN 0
                     ELSE IF HS_FLAG_SINGLEMATCH \in db.flags[k] THEN 1
                     ELSE Cardinality(ends)
         IN  Repeat(IF hits = 0 THEN 0 ELSE db.ids[k], hits) \o scan(db, data, Tail(order))

-----------------------------------------------------------------------------
(* GenericResolver *)

NoError == ""

\* RuleBasedProcessor._get_dotted_field_value(event, dotted_field): the value
\* at a dotted path, None if a key is missing or an intermediate value is
\* not a mapping
RECURSIVE GetDotted(_, _)
GetDotted(v, fields) ==
    IF fields = <<>> THEN v
    ELSE IF IsDict(v) /\ Head(fields) \in DOMAIN v.d
         THEN GetDotted(v.d[Head(fields)], Tail(fields))
         ELSE PyNone

_get_dotted_field_value(ev, dotted_field) == GetDotted(ev, Split(dotted_field, "."))

\* self._hyperscan_database_path + "/" + database_id + '.db'
DbFile(hyperscan_database_path, database_id) ==
    hyperscan_database_path \o <<"/">> \o database_id \o <<".db">>

\* value_mapping[idx] = resolve_list[pattern] for idx, pattern in enumerate(resolve_list.keys())
ValueMapping(resolve_list) ==
    [idx \in 0..(Len(resolve_list) - 1) |->
        LET pattern == resolve_list[idx + 1].pattern
        IN  (CHOOSE e \in Range(resolve_list) : e.pattern = pattern).value]

\* _load_database(database_id, resolve_list)
_load_database(path, dsk, database_id, resolve_list) ==
    IF dsk.fault = "read"
    THEN [exc |-> "PermissionError", db |-> Database, value_mapping |-> <<>>]
    ELSE IF DbFile(path, database_id) \notin DOMAIN dsk.files
    THEN [exc |-> "FileNotFoundError", db |-> Database, value_mapping |-> <<>>]
    ELSE IF ~Deserializable(dsk.files[DbFile(path, database_id)])
    THEN [exc |-> "hyperscan.error", db |-> Database, value_mapping |-> <<>>]
    ELSE [exc |-> NoError,
          db |-> loadb(dsk.files[DbFile(path, database_id)]),
          value_mapping |-> ValueMapping(resolve_list)]

\* os.makedirs(path): the errno of the OSError raised ("" if none) and the
\* disk afterwards
makedirs(dsk) ==
    IF dsk.dir THEN [errno |-> "EEXIST", disk |-> dsk]
    ELSE IF dsk.fault = "mkdir" THEN [errno |-> "EACCES", disk |-> dsk]
    ELSE [errno |-> "", disk |-> [dsk EXCEPT !.dir = TRUE]]

\* _create_hyperscan_dbs_dir(path): makedirs; of the OSErrors only EEXIST is
\* swallowed
_create_hyperscan_dbs_dir(dsk) ==
    [exc |-> IF makedirs(dsk).errno \notin {"", "EEXIST"} THEN "PermissionError" ELSE NoError,
     disk |-> makedirs(dsk).disk]

\* open(file, "wb") and f.write(serialized_db) on the disk made
Written(made, file, serialized_db) ==
    IF made.exc # NoError THEN made
    ELSE IF made.disk.fault = "write" THEN [exc |-> "PermissionError", disk |-> made.disk]
    ELSE [exc |-> NoError,
          disk |-> [made.disk EXCEPT !.files = Put(made.disk.files, file, serialized_db)]]

\* a slip: the file is written without the '.db' suffix that _load_database reads
SaveWithoutSuffix(path, dsk, database, database_id) ==
    Written(_create_hyperscan_dbs_dir(dsk), path \o <<"/">> \o database_id, dumpb(database))

\* _save_database(database, database_id): the exception raised, if any, and
\* the disk afterwards
_save_database(path, dsk, database, database_id) ==
    Written(_create_hyperscan_dbs_dir(dsk), DbFile(path, database_id), dumpb(database))

\* a slip: an empty pattern list is compiled like any other
CreateDatabaseUnchecked(resolve_list) ==
    [exc |-> NoError,
     db |-> compile([k \in 1..Len(resolve_list) |-> resolve_list[k].pattern],
                    [k \in 1..Len(resolve_list) |-> k - 1],
                    Len(resolve_list),
                    [k \in 1..Len(resolve_list) |-> {HS_FLAG_SINGLEMATCH, HS_FLAG_CASELESS}]),
     value_mapping |-> ValueMapping(resolve_list)]

\* _create_database(resolve_list)
_create_database(resolve_list) ==
    LET db_patterns == [k \in 1..Len(resolve_list) |->
                          <<resolve_list[k].pattern, k - 1,
                            {HS_FLAG_SINGLEMATCH, HS_FLAG_CASELESS}>>]
        expressions == [k \in 1..Len(db_patterns) |-> db_patterns[k][1]]
        ids         == [k \in 1..Len(db_patterns) |-> db_patterns[k][2]]
        flags       == [k \in 1..Len(db_patterns) |-> db_patterns[k][3]]
    IN  IF db_patterns = <<>>
        THEN [exc |-> "GenericResolverError", db |-> Database, value_mapping |-> <<>>]
        ELSE [exc |-> NoError,
              db |-> compile(expressions, ids, Len(db_patterns), flags),
              value_mapping |-> ValueMapping(resolve_list)]

\* _get_hyperscan_database(rule), "if database_id not in
\* self._hyperscan_databases.keys()" being false: the cached entry
CacheHit(dbs, dsk, database_id) ==
    [exc |-> NoError, dbs |-> dbs, disk |-> dsk, io |-> <<>>,
     db |-> dbs[database_id].db,
     value_mapping |-> dbs[database_id].value_mapping]

\* _get_hyperscan_database(rule), the cache entry made from (db, value_mapping)
CacheFill(dbs, dsk, database_id, made, io) ==
    [exc |-> NoError,
     dbs |-> Put(dbs, database_id, [db |-> made.db, value_mapping |-> made.value_mapping]),
     disk |-> dsk, io |-> io,
     db |-> made.db, value_mapping |-> made.value_mapping]

\* _get_hyperscan_database(rule) left by an exception: nothing is cached
Propagated(exc, dbs, dsk, io) ==
    [exc |-> exc, dbs |-> dbs, disk |-> dsk, io |-> io,
     db |-> Database, value_mapping |-> <<>>]

\* _get_hyperscan_database(rule), lines 153-158 after _save_database ended
\* with saved
Persisted(dbs, rule, created, saved) ==
    IF saved.exc # NoError
    THEN Propagated(saved.exc, dbs, saved.disk, <<"load", "compile", "save">>)
    ELSE CacheFill(dbs, saved.disk, rule.file_name, created, <<"load", "compile", "save">>)

\* _get_hyperscan_database(rule), the except branch: lines 151-158
Compiled(path, dbs, dsk, rule, created) ==
    IF created.exc # NoError
    THEN Propagated(created.exc, dbs, dsk, <<"load", "compile">>)
    ELSE IF rule.store_db_persistent
    THEN Persisted(dbs, rule, created,
                   _save_database(path, dsk, created.db, rule.file_name))
    ELSE CacheFill(dbs, dsk, rule.file_name, created, <<"load", "compile">>)

\* a slip: the persisted file is ignored, the database always compiled
CacheMissRecompile(path, dbs, dsk, rule, loaded, created) ==
    Compiled(path, dbs, dsk, rule, created)

\* a slip: every exception of the load counts as a cache miss
CacheMissAnyError(path, dbs, dsk, rule, loaded, created) ==
    IF loaded.exc = NoError
    THEN CacheFill(dbs, dsk, rule.file_name, loaded, <<"load">>)
    ELSE Compiled(path, dbs, dsk, rule, created)

\* a slip: the compiled database is persisted whatever store_db_persistent says
CacheMissAlwaysSave(path, dbs, dsk, rule, loaded, created) ==
    IF loaded.exc = NoError
    THEN CacheFill(dbs, dsk, rule.file_name, loaded, <<"load">>)
    ELSE IF loaded.exc # "FileNotFoundError"
    THEN Propagated(loaded.exc, dbs, dsk, <<"load">>)
    ELSE IF created.exc # NoError
    THEN Propagated(created.exc, dbs, dsk, <<"load", "compile">>)
    ELSE Persisted(dbs, rule, created,
                   _save_database(path, dsk, created.db, rule.file_name))

\* _get_hyperscan_database(rule), the try/except around _load_database:
\* loaded and created are the results of _load_database and _create_database
CacheMiss(path, dbs, dsk, rule, loaded, created) ==
    IF loaded.exc = NoError
    THEN CacheFill(dbs, dsk, rule.file_name, loaded, <<"load">>)
    ELSE IF loaded.exc # "FileNotFoundError"
    THEN Propagated(loaded.exc, dbs, dsk, <<"load">>)
    ELSE Compiled(path, dbs, dsk, rule, created)

\* a slip: the in-memory cache is not consulted
GetDatabaseUncached(path, dbs, dsk, rule) ==
    CacheMiss(path, dbs, dsk, rule,
              _load_database(path, dsk, rule.file_name, rule.resolve_list),
              _create_database(rule.resolve_list))

\* _get_hyperscan_database(rule): the cache and the disk afterwards, the
\* database and value mapping returned, and the steps taken (io)
_get_hyperscan_database(path, dbs, dsk, rule) ==
    IF rule.file_name \in DOMAIN dbs
    THEN CacheHit(dbs, dsk, rule.file_name)
    ELSE CacheMiss(path, dbs, dsk, rule,
                   _load_database(path, dsk, rule.file_name, rule.resolve_list),
                   _create_database(rule.resolve_list))

\* min(result) and result.index(x)
Min(result) == CHOOSE m \in Range(result) : \A x \in Range(result) : m <= x
Index(result, x) == CHOOSE i \in 1..Len(result) : result[i] = x /\ \A h \in 1..(i - 1) : result[h] # x

\* a slip: the id reported first instead of the smallest id
ChosenFirstReported(result) == result[1]

\* result[result.index(min(result))]
Chosen(result) == result[Index(result, Min(result))]

\* the key read by dict_.get('key', []) in _apply_rules
KeyLiteral == <<"k", "e", "y">>

\* _apply_rules, the loop over the keys of one target ("for idx, key in
\* enumerate(keys)").  st.dict_ is the path from the event to the dict that
\* dict_ refers to; idx counts from 1.  The value
\* pattern_id_to_dest_val_map[result[result.index(min(result))]] is looked up
\* where the code evaluates it: a missing id raises KeyError there.
RECURSIVE WriteKeys(_, _, _, _, _, _)
WriteKeys(st, keys, idx, rule, pattern_id_to_dest_val_map, result) ==
    IF idx > Len(keys) \/ st.exc # NoError THEN st
    ELSE
    LET key    == keys[idx]
        dict_  == GetAt(st.event, st.dict_)
        chosen == Chosen(result)
        known  == chosen \in DOMAIN pattern_id_to_dest_val_map
        val    == pattern_id_to_dest_val_map[chosen]
        here   == st.dict_ \o <<key>>
    IN
    IF key \notin DOMAIN dict_.d
    THEN IF idx = Len(keys)
         THEN IF rule.append_to_list
              THEN LET got == IF KeyLiteral \in DOMAIN dict_.d
                              THEN dict_.d[KeyLiteral]
                              ELSE PyList(<<>>, SetMax(Oids(st.event)) + 1)
                       set == SetAt(st.event, here, got)
                   IN  IF ~IsList(got)
                       THEN [st EXCEPT !.event = set, !.exc = "AttributeError"]
                       ELSE IF ~known
                       THEN [st EXCEPT !.event = set, !.exc = "KeyError"]
                       ELSE [st EXCEPT !.event = AppendObj(set, got.o, val)]
              ELSE IF ~known
                   THEN [st EXCEPT !.exc = "KeyError"]
                   ELSE [st EXCEPT !.event = SetAt(st.event, here, val)]
         ELSE WriteKeys([st EXCEPT !.event = SetAt(st.event, here, EmptyDict),
                                   !.dict_ = here],
                        keys, idx + 1, rule, pattern_id_to_dest_val_map, result)
    ELSE IF IsDict(dict_.d[key])
    THEN WriteKeys([st EXCEPT !.dict_ = here],
                   keys, idx + 1, rule, pattern_id_to_dest_val_map, result)
    ELSE IF rule.append_to_list /\ IsList(dict_.d[key])
    THEN IF ~known
         THEN [st EXCEPT !.exc = "KeyError"]
         ELSE WriteKeys(IF ~InList(val, dict_.d[key])
                        THEN [st EXCEPT !.event = AppendObj(st.event, dict_.d[key].o, val)]
                        ELSE st,
                        keys, idx + 1, rule, pattern_id_to_dest_val_map, result)
    ELSE WriteKeys([st EXCEPT !.conflicting_fields = Append(st.conflicting_fields, keys[idx])],
                   keys, idx + 1, rule, pattern_id_to_dest_val_map, result)

\* the record kept of one field mapping's turn
Logged(st, mapping, src_val, result, done) ==
    [event |-> done.event,
     conflicting_fields |-> done.conflicting_fields,
     exc |-> done.exc,
     log |-> Append(st.log, [source |-> mapping.source, target |-> mapping.target,
                             src_val |-> src_val, result |-> result,
                             before |-> st.event, after |-> done.event,
                             conflicts |-> SubSeq(done.conflicting_fields,
                                                  Len(st.conflicting_fields) + 1,
                                                  Len(done.conflicting_fields)),
                             exc |-> done.exc])]

\* a slip: the target is tested for a value before the match is
ResolveTargetFirst(start, rule, pattern_id_to_dest_val_map, keys, src_val, result) ==
    IF GetDotted(start.event, keys) # PyNone /\ ~IsDict(GetDotted(start.event, keys))
    THEN [start EXCEPT !.conflicting_fields = Append(start.conflicting_fields, Last(keys))]
    ELSE IF ~Truthy(src_val) THEN start
    ELSE IF ~IsStr(src_val) THEN [start EXCEPT !.exc = "TypeError"]
    ELSE IF result = <<>> THEN start
    ELSE WriteKeys(start, keys, 1, rule, pattern_id_to_dest_val_map, result)

\* _apply_rules, "if src_val:" ... "if result:" for one mapping
Resolve(start, rule, pattern_id_to_dest_val_map, keys, src_val, result) ==
    IF ~Truthy(src_val) THEN start
    ELSE IF ~IsStr(src_val) THEN [start EXCEPT !.exc = "TypeError"]
    ELSE IF result = <<>> THEN start
    ELSE WriteKeys(start, keys, 1, rule, pattern_id_to_dest_val_map, result)

\* hyperscan_db.scan(src_val, match_event_handler=on_match): result
Scanned(hyperscan_db, src_val, order) ==
    IF IsStr(src_val) THEN scan(hyperscan_db, src_val.s, order) ELSE <<>>

ApplyMappingTo(st, rule, hyperscan_db, pattern_id_to_dest_val_map, order, mapping, src_val) ==
    LET result == Scanned(hyperscan_db, src_val, order)
    IN  Logged(st, mapping, src_val, result,
               Resolve([event |-> st.event, dict_ |-> <<>>,
                        conflicting_fields |-> st.conflicting_fields, exc |-> NoError],
                       rule, pattern_id_to_dest_val_map,
                       Split(mapping.target, "."), src_val, result))

\* a slip: the source is read from the event as it was before the first mapping
ApplyMappingStale(st, rule, hyperscan_db, pattern_id_to_dest_val_map, order, mapping) ==
    ApplyMappingTo(st, rule, hyperscan_db, pattern_id_to_dest_val_map, order, mapping,
                   _get_dotted_field_value(IF st.log = <<>> THEN st.event
                                           ELSE st.log[1].before,
                                           mapping.source))

\* _apply_rules, the body of "for resolve_source, resolve_target in
\* rule.field_mapping.items()" for one mapping.  Returns st with the event
\* and the conflicts afterwards and a record of the step appended to st.log.
ApplyMapping(st, rule, hyperscan_db, pattern_id_to_dest_val_map, order, mapping) ==
    ApplyMappingTo(st, rule, hyperscan_db, pattern_id_to_dest_val_map, order, mapping,
                   _get_dotted_field_value(st.event, mapping.source))

\* a slip: the loop over the mappings ends at the first conflict
RECURSIVE ApplyMappingsUntilConflict(_, _, _, _, _, _)
ApplyMappingsUntilConflict(st, rule, hyperscan_db, pattern_id_to_dest_val_map, order, i) ==
    IF i > Len(rule.field_mapping) \/ st.exc # NoError \/ st.conflicting_fields # <<>> THEN st
    ELSE ApplyMappingsUntilConflict(
             ApplyMapping(st, rule, hyperscan_db, pattern_id_to_dest_val_map,
                          order, rule.field_mapping[i]),
             rule, hyperscan_db, pattern_id_to_dest_val_map, order, i + 1)

\* _apply_rules, the loop over rule.field_mapping in declaration order; an
\* exception in one mapping ends the loop
RECURSIVE ApplyMappings(_, _, _, _, _, _)
ApplyMappings(st, rule, hyperscan_db, pattern_id_to_dest_val_map, order, i) ==
    IF i > Len(rule.field_mapping) \/ st.exc # NoError THEN st
    ELSE ApplyMappings(ApplyMapping(st, rule, hyperscan_db, pattern_id_to_dest_val_map,
                                    order, rule.field_mapping[i]),
                       rule, hyperscan_db, pattern_id_to_dest_val_map, order, i + 1)

\* DuplicationError(name, skipped_fields)
DuplicationError(skipped_fields) ==
    [type |-> "DuplicationError", skipped_fields |-> skipped_fields,
     message |-> Join(<<" ">>, skipped_fields)]

OtherError(type) == [type |-> type, skipped_fields |-> <<>>, message |-> <<>>]

\* a slip: only the first conflict is reported
RaisedFirstConflict(loop) ==
    IF loop.exc # NoError THEN OtherError(loop.exc)
    ELSE IF loop.conflicting_fields # <<>>
    THEN DuplicationError(<<loop.conflicting_fields[1]>>)
    ELSE OtherError(NoError)

\* _apply_rules, "if conflicting_fields: raise DuplicationError(...)"
Raised(loop) ==
    IF loop.exc # NoError THEN OtherError(loop.exc)
    ELSE IF loop.conflicting_fields # <<>>
    THEN DuplicationError(loop.conflicting_fields)
    ELSE OtherError(NoError)

ApplyResult(got, loop) ==
    [event |-> loop.event, dbs |-> got.dbs, disk |-> got.disk, io |-> got.io,
     value_mapping |-> got.value_mapping, db |-> got.db,
     log |-> loop.log, raised |-> Raised(loop)]

ApplyWith(ev, rule, order, got) ==
    IF got.exc # NoError
    THEN [event |-> ev, dbs |-> got.dbs, disk |-> got.disk, io |-> got.io,
          value_mapping |-> got.value_mapping, db |-> got.db,
          log |-> <<>>, raised |-> OtherError(got.exc)]
    ELSE ApplyResult(got, ApplyMappings([event |-> ev, conflicting_fields |-> <<>>,
                                         exc |-> NoError, log |-> <<>>],
                                        rule, got.db, got.value_mapping, order, 1))

\* _apply_rules(event, rule): the event, cache and disk afterwards and the
\* exception raised, if any
_apply_rules(path, dbs, dsk, ev, rule, order) ==
    ApplyWith(ev, rule, order, _get_hyperscan_database(path, dbs, dsk, rule))

-----------------------------------------------------------------------------
(* The rules and events the resolver is driven with *)

\* at most this many rules match one event
MaxRules == 2

hyperscan_database_path == <<"dbs">>

Abc == <<"a", "b", "c">>
Old == PyStr(<<"o", "l", "d">>)
X == PyStr(<<"X">>)
Y == PyStr(<<"Y">>)
Z == PyStr(<<"Z">>)
W == PyStr(<<"W">>)

\* {"^abc$": "X", "^ab": "Y"}: the value "abc" matches both patterns
RL_abc == <<[pattern |-> <<"^", "a", "b", "c", "$">>, value |-> X],
            [pattern |-> <<"^", "a", "b">>, value |-> Y]>>
\* {"^ab": "Z"}
RL_ab == <<[pattern |-> <<"^", "a", "b">>, value |-> Z]>>
\* {}
RL_empty == <<>>
\* {"^abc$": "ab", "^ab$": "W"}: the value of the first entry matches the second
RL_chain == <<[pattern |-> <<"^", "a", "b", "c", "$">>, value |-> PyStr(<<"a", "b">>)],
              [pattern |-> <<"^", "a", "b", "$">>, value |-> W]>>

\* field mappings: source -> target, in declaration order
FM_two == <<[source |-> <<"s">>, target |-> <<"t">>],
            [source |-> <<"r">>, target |-> <<"u">>]>>
FM_nested == <<[source |-> <<"s">>, target |-> <<"a", ".", "b">>]>>
FM_one == <<[source |-> <<"s">>, target |-> <<"t">>]>>
\* the second mapping reads what the first one writes
FM_chain == <<[source |-> <<"s">>, target |-> <<"t">>],
              [source |-> <<"t">>, target |-> <<"u">>]>>

GenericResolverRule(field_mapping, resolve_list, file_name, append_to_list, store_db_persistent) ==
    [field_mapping |-> field_mapping, resolve_list |-> resolve_list,
     file_name |-> file_name, append_to_list |-> append_to_list,
     store_db_persistent |-> store_db_persistent]

\* the rules of the rule tree, in the order get_matching_rules delivers them
Rules == <<
    GenericResolverRule(FM_two, RL_abc, <<"f1">>, FALSE, TRUE),
    GenericResolverRule(FM_two, RL_abc, <<"f1">>, TRUE, TRUE),
    GenericResolverRule(FM_two, RL_abc, <<"f1">>, TRUE, TRUE),
    GenericResolverRule(FM_nested, RL_abc, <<"f2">>, FALSE, FALSE),
    GenericResolverRule(FM_nested, RL_abc, <<"f2">>, TRUE, FALSE),
    GenericResolverRule(FM_one, RL_ab, <<"f1">>, FALSE, TRUE),
    GenericResolverRule(FM_chain, RL_chain, <<"f4">>, FALSE, FALSE),
    GenericResolverRule(FM_one, RL_empty, <<"f3">>, FALSE, TRUE) >>

Doc(keys, val(_)) == PyDict([k \in keys |-> val(k)])

E_val(ev, k) == (CHOOSE e \in Range(ev) : e[1] = k)[2]
\* a dict from <<key, value>> pairs
D(pairs) == PyDict([k \in {pairs[i][1] : i \in 1..Len(pairs)} |-> E_val(pairs, k)])

kS == <<"s">>
kR == <<"r">>
kT == <<"t">>
kU == <<"u">>
kA == <<"a">>
kB == <<"b">>

Events == {
    D(<< <<kS, PyStr(Abc)>> >>),
    D(<< <<kS, PyStr(Abc)>>, <<kR, PyStr(<<"a", "b", "d">>)>> >>),
    D(<< <<kS, PyStr(Abc)>>, <<kR, PyStr(<<"a", "b", "d">>)>>, <<kT, Old>>, <<kU, Old>> >>),
    D(<< <<kS, PyStr(Abc)>>, <<kR, PyStr(<<"a", "b", "d">>)>>, <<kT, Old>> >>),
    D(<< <<kS, PyStr(<<"A", "B", "C">>)>>, <<kT, PyList(<<X>>, 1)>> >>),
    D(<< <<kS, PyStr(Abc)>>, <<kT, PyList(<<W>>, 1)>>, <<KeyLiteral, PyList(<<X>>, 2)>> >>),
    D(<< <<kS, PyStr(Abc)>>, <<KeyLiteral, PyList(<<X>>, 1)>> >>),
    D(<< <<kS, PyStr(<<"a", "b", "d">>)>>, <<KeyLiteral, Old>> >>),
    D(<< <<kS, PyStr(Abc)>>, <<kA, D(<< <<kB, Old>> >>)>> >>),
    D(<< <<kS, PyStr(Abc)>>, <<kA, D(<< <<kB, PyList(<<W>>, 1)>> >>)>> >>),
    D(<< <<kS, PyStr(Abc)>>, <<kA, D(<< <<kB, D(<< <<kT, Old>> >>)>> >>)>> >>),
    D(<< <<kS, PyStr(Abc)>>, <<kA, Old>> >>),
    D(<< <<kS, PyStr(Abc)>>, <<kA, PyList(<<W>>, 1)>> >>),
    D(<< <<kS, PyStr(<<"z", "z">>)>>, <<kT, Old>> >>),
    D(<< <<kS, PyStr(<<>>)>>, <<kT, Old>> >>),
    D(<< <<kS, PyInt(0)>> >>),
    D(<< <<kS, D(<< <<kB, Old>> >>)>> >>),
    D(<< <<kR, PyStr(Abc)>>, <<kT, Old>> >>) }

\* the results of get_matching_rules(event): rules of the tree, in tree
\* order, at most MaxRules of them
RECURSIVE Pick(_, _)
Pick(rules, chosen) ==
    IF rules = <<>> THEN <<>>
    ELSE (IF Len(rules) \in chosen THEN <<rules[Len(rules)]>> ELSE <<>>)
         \o Pick(SubSeq(rules, 1, Len(rules) - 1), chosen)

Reverse(xs) == [i \in 1..Len(xs) |-> xs[Len(xs) + 1 - i]]

MatchingRules ==
    {Reverse(Pick(Rules, chosen)) :
        chosen \in {c \in SUBSET (1..Len(Rules)) : Cardinality(c) <= MaxRules}}

-----------------------------------------------------------------------------
(* The resolver as a state machine *)

NotRaised == OtherError(NoError)

\* GenericResolver.__init__ and the state before the first event
ResolverInit ==
    /\ hyperscan_databases = <<>>
    /\ disk = [dir |-> FALSE, files |-> <<>>, fault |-> "none"]
    /\ event = EmptyDict
    /\ pending = <<>>
    /\ phase = "idle"
    /\ raised = NotRaised
    /\ applied = <<>>
    /\ io_done = <<>>

\* no race of worker processes is under way
RaceIdle ==
    /\ race_rule = <<>>
    /\ workers = <<>>

\* process(event) is entered: rule dispatch delivers the matching rules
process(ev, rules) ==
    /\ phase = "idle"
    /\ event' = ev
    /\ pending' = rules
    /\ phase' = IF rules = <<>> THEN "done" ELSE "running"
    /\ raised' = NotRaised
    /\ applied' = <<>>
    /\ UNCHANGED <<hyperscan_databases, disk, io_done>>
    /\ UNCHANGED <<tvars, wvars>>

\* a process() that catches what _apply_rules raises and goes on with the
\* next rule
AppliedCaught(rule, r, fault) ==
    /\ event' = r.event
    /\ hyperscan_databases' = r.dbs
    /\ disk' = [r.disk EXCEPT !.fault = "none"]
    /\ raised' = r.raised
    /\ applied' = Append(applied,
           [rule |-> rule, fault |-> fault, io |-> r.io, log |-> r.log, raised |-> r.raised,
            db |-> r.db, value_mapping |-> r.value_mapping,
            cached |-> rule.file_name \in DOMAIN hyperscan_databases,
            before |-> event, after |-> r.event])
    /\ pending' = Tail(pending)
    /\ phase' = IF Tail(pending) = <<>> THEN "done" ELSE "running"

\* the state after _apply_rules(event, rule) ended with r
Applied(rule, r, fault) ==
    /\ event' = r.event
    /\ hyperscan_databases' = r.dbs
    /\ disk' = [r.disk EXCEPT !.fault = "none"]
    /\ raised' = r.raised
    /\ applied' = Append(applied,
           [rule |-> rule, fault |-> fault, io |-> r.io, log |-> r.log, raised |-> r.raised,
            db |-> r.db, value_mapping |-> r.value_mapping,
            cached |-> rule.file_name \in DOMAIN hyperscan_databases,
            before |-> event, after |-> r.event])
    /\ pending' = IF r.raised.type # NoError THEN <<>> ELSE Tail(pending)
    /\ phase' = IF r.raised.type # NoError \/ Tail(pending) = <<>>
                THEN "done" ELSE "running"

\* the number of patterns of the database that _apply_rules will scan with
Patterns(dbs, dsk, rule) ==
    Len(_get_hyperscan_database(hyperscan_database_path, dbs, dsk, rule).db.ids)

\* what the file system may refuse during one call: nothing, reading,
\* creating the directory, or writing
Faults == {"none", "read", "mkdir", "write"}

\* the call runs into the refusal: it ends otherwise than it does without.
\* (A refusal of an operation that the call does not make is no refusal.)
RunsInto(refused, granted) == refused.exc # granted.exc \/ refused.io # granted.io

\* the disk as the call meets it
Failing(dsk, fault) == [dsk EXCEPT !.fault = fault]

\* one turn of "for rule in self._tree.get_matching_rules(event)": the
\* whole of _apply_rules(event, rule); an exception ends process()
Turn(order, fault) ==
    /\ phase = "running"
    /\ pending # <<>>
    /\ fault # "none" =>
         RunsInto(_get_hyperscan_database(hyperscan_database_path, hyperscan_databases,
                                          Failing(disk, fault), Head(pending)),
                  _get_hyperscan_database(hyperscan_database_path, hyperscan_databases,
                                          disk, Head(pending)))
    /\ order \in ScanOrders(Patterns(hyperscan_databases, Failing(disk, fault), Head(pending)))
    /\ Applied(Head(pending),
               _apply_rules(hyperscan_database_path, hyperscan_databases,
                            Failing(disk, fault), event, Head(pending), order),
               fault)
    /\ UNCHANGED <<tvars, wvars>>

ApplyRule(order, fault) == Turn(order, fault) /\ UNCHANGED io_done

\* the steps made for an identity, with those of one more call
Noted(done, database_id, io) ==
    IF io = <<>> THEN done
    ELSE Put(done, database_id,
             Range(io) \cup (IF database_id \in DOMAIN done THEN done[database_id] ELSE {}))

\* the same turn, the steps it makes noted in the worker's history
TrackedApplyRule(order) ==
    /\ Turn(order, "none")
    /\ io_done' = Noted(io_done, Head(pending).file_name, Last(applied').io)

\* process() returns or raises: control and the event go back to the caller
Return ==
    /\ phase = "done"
    /\ phase' = "idle"
    /\ event' = EmptyDict
    /\ pending' = <<>>
    /\ raised' = NotRaised
    /\ applied' = <<>>
    /\ UNCHANGED <<hyperscan_databases, disk, io_done>>
    /\ UNCHANGED <<tvars, wvars>>

\* the worker process ends and a new one constructs its GenericResolver:
\* the in-memory cache starts empty, the persistence directory stays
Reconstruct ==
    /\ phase = "idle"
    /\ hyperscan_databases' = <<>>
    /\ UNCHANGED <<disk, event, pending, phase, raised, applied>>
    /\ UNCHANGED <<tvars, wvars>>

NewWorker == hyperscan_databases # <<>> /\ Reconstruct /\ UNCHANGED io_done

\* the same, the new worker's history starting empty
Restart == io_done # <<>> /\ Reconstruct /\ io_done' = <<>>

\* the scan orders of the databases the rules compile to
AllScanOrders == UNION {ScanOrders(Len(Rules[i].resolve_list)) : i \in 1..Len(Rules)}

-----------------------------------------------------------------------------
(* TemplateReplacer *)

\* list.index(x), counted from 0
IndexOf(xs, x) == (CHOOSE i \in 1..Len(xs) : xs[i] = x /\ \A h \in 1..(i - 1) : xs[h] # x) - 1

\* __init__, lines 68-75: the keys a composite key is recombined to
RecombinedKeys(key, delimiter, fields, allow_delimiter_index) ==
    LET split_key        == Split(key, delimiter)
        left             == SliceTo(split_key, allow_delimiter_index)
        middle_and_right == SliceFrom(split_key, allow_delimiter_index)
        middle == SliceToNeg(middle_and_right, Len(fields) - allow_delimiter_index - 1)
        right  == SliceFromNeg(middle_and_right, Len(fields) - allow_delimiter_index - 1)
    IN  left \o <<Join(<<"-">>, middle)>> \o right

\* an insertion that starts every intermediate level anew
RECURSIVE StoreFresh(_, _, _, _, _)
StoreFresh(_dict, recombined_keys, idx, nfields, value) ==
    LET recombined_key == recombined_keys[idx]
    IN  IF idx - 1 < nfields - 1
        THEN PyDict(Put(_dict.d, recombined_key,
                        StoreFresh(EmptyDict, recombined_keys, idx + 1, nfields, value)))
        ELSE PyDict(Put(_dict.d, recombined_key, value))

\* __init__, lines 84-91: value stored in the nested dict _dict under
\* recombined_keys[idx..]; idx counts from 1, nfields is len(self._fields)
RECURSIVE Store(_, _, _, _, _)
Store(_dict, recombined_keys, idx, nfields, value) ==
    LET recombined_key == recombined_keys[idx]
        below == IF recombined_key \in DOMAIN _dict.d /\ Truthy(_dict.d[recombined_key])
                 THEN _dict.d[recombined_key]
                 ELSE EmptyDict
    IN  IF idx - 1 < nfields - 1
        THEN PyDict(Put(_dict.d, recombined_key,
                        Store(below, recombined_keys, idx + 1, nfields, value)))
        ELSE PyDict(Put(_dict.d, recombined_key, value))

\* __init__, "for key, value in template.items()": the mapping after the
\* entries from i on, or the error raised by one of them
RECURSIVE LoadTemplate(_, _, _)
LoadTemplate(st, pattern, i) ==
    IF i > Len(pattern.template) \/ st.exc # NoError THEN st
    ELSE LET entry == pattern.template[i]
             recombined_keys ==
                 RecombinedKeys(entry.key, pattern.delimiter, pattern.fields,
                                IndexOf(pattern.fields, pattern.allowed_delimiter_field))
         IN  IF Len(recombined_keys) # Len(pattern.fields)
             THEN [st EXCEPT !.exc = "TemplateReplacerError"]
             ELSE LoadTemplate(
                      [st EXCEPT !.mapping = Store(st.mapping, recombined_keys, 1,
                                                   Len(pattern.fields), entry.value)],
                      pattern, i + 1)

\* str(dotted_field_value)
Digits == <<"0", "1", "2", "3", "4", "5", "6", "7", "8", "9">>
str(v) ==
    CASE v.t = "str" -> v.s
      [] v.t = "int" /\ v.n \in 0..9 -> <<Digits[v.n + 1]>>
      [] OTHER -> <<"<repr>">>

\* _field_exists(event, dotted_field): "field in dict_" is a key test on a
\* dict, a substring test on a str and a membership test on a list, and
\* dict_[field] is defined on a dict only
RECURSIVE FieldExists(_, _)
FieldExists(dict_, fields) ==
    IF fields = <<>> THEN [exc |-> NoError, exists |-> TRUE]
    ELSE LET field == Head(fields)
         IN  CASE dict_.t = "dict" ->
                    IF field \in DOMAIN dict_.d
                    THEN FieldExists(dict_.d[field], Tail(fields))
                    ELSE [exc |-> NoError, exists |-> FALSE]
               [] dict_.t = "str" ->
                    IF IsSubstring(field, dict_.s)
                    THEN [exc |-> "TypeError", exists |-> FALSE]
                    ELSE [exc |-> NoError, exists |-> FALSE]
               [] dict_.t = "list" ->
                    IF InList(PyStr(field), dict_)
                    THEN [exc |-> "TypeError", exists |-> FALSE]
                    ELSE [exc |-> NoError, exists |-> FALSE]
               [] OTHER -> [exc |-> "TypeError", exists |-> FALSE]

_field_exists(ev, dotted_field) == FieldExists(ev, Split(dotted_field, "."))

\* a lookup that passes over an absent field and stays on its level
RECURSIVE LookUpSkipAbsent(_, _, _, _)
LookUpSkipAbsent(_dict, ev, fields, i) ==
    IF i > Len(fields) THEN _dict
    ELSE LET dotted_field_value == _get_dotted_field_value(ev, fields[i])
             value == str(dotted_field_value)
         IN  IF dotted_field_value = PyNone
             THEN LookUpSkipAbsent(_dict, ev, fields, i + 1)
             ELSE IF value \notin DOMAIN _dict.d THEN PyNone
             ELSE IF _dict.d[value] = PyNone THEN PyNone
             ELSE LookUpSkipAbsent(_dict.d[value], ev, fields, i + 1)

\* _apply_rules, lines 149-158: the value reached by descending the mapping
\* with the event's field values from field i on; None where the code returns
RECURSIVE LookUp(_, _, _, _)
LookUp(_dict, ev, fields, i) ==
    IF i > Len(fields) THEN _dict
    ELSE LET dotted_field_value == _get_dotted_field_value(ev, fields[i])
             value == str(dotted_field_value)
         IN  IF dotted_field_value = PyNone THEN PyNone
             ELSE IF value \notin DOMAIN _dict.d THEN PyNone
             ELSE IF _dict.d[value] = PyNone THEN PyNone
             ELSE LookUp(_dict.d[value], ev, fields, i + 1)

\* _apply_rules, lines 160-165, with the value _dict found by the lookup
Rewrite(ev, target_field, _dict, found) ==
    IF _dict = PyNone THEN [event |-> ev, exc |-> NoError]
    ELSE IF found.exc # NoError THEN [event |-> ev, exc |-> found.exc]
    ELSE IF found.exists
    THEN [event |-> SetAt(ev, Split(target_field, "."), _dict), exc |-> NoError]
    ELSE [event |-> ev, exc |-> NoError]

\* TemplateReplacer._apply_rules(event)
tr_apply_rules(mapping, pattern, ev) ==
    Rewrite(ev, pattern.target_field, LookUp(mapping, ev, pattern.fields, 1),
            _field_exists(ev, pattern.target_field))

\* TemplateReplacer.process(event) with n matching rules: _apply_rules once
\* per matching rule; prev is the event before the last _apply_rules call
RECURSIVE ApplyTimes(_, _, _, _)
ApplyTimes(st, mapping, pattern, n) ==
    IF n = 0 \/ st.exc # NoError THEN st
    ELSE LET r == tr_apply_rules(mapping, pattern, st.event)
         IN  ApplyTimes([event |-> r.event, exc |-> r.exc, prev |-> st.event, calls |-> st.calls + 1],
                        mapping, pattern, n - 1)

TemplateEntry(key, value) == [key |-> key, value |-> value]

\* the composite key of the tokens under a delimiter
CompositeKey(tokens, delimiter) == Join(<<delimiter>>, tokens)

\* template files, as the tokens of each composite key and its value
Templates == {
    << [tokens |-> <<<<"f">>, <<"b">>>>, value |-> Z] >>,
    << [tokens |-> <<<<"f">>, <<"x">>, <<"b">>>>, value |-> Z] >>,
    << [tokens |-> <<<<"f">>>>, value |-> Z] >>,
    << [tokens |-> <<<<"f">>, <<"b">>>>, value |-> Z],
       [tokens |-> <<<<"f">>, <<"x">>>>, value |-> W] >>,
    << [tokens |-> <<<<"f">>, <<"b">>, <<"x">>>>, value |-> Z],
       [tokens |-> <<<<"f">>, <<"x">>, <<"x">>, <<"x">>>>, value |-> W] >>,
    << [tokens |-> <<<<"1">>, <<"b">>>>, value |-> W] >> }

FieldLists == {<<kA>>, <<kA, kB>>, <<kA, kB, <<"c">>>>}

TemplateFile(t, delimiter) ==
    [i \in 1..Len(t) |-> TemplateEntry(CompositeKey(t[i].tokens, delimiter), t[i].value)]

\* the pattern argument of __init__, with the loaded template file
Patterns_ ==
    {[fields |-> fs, delimiter |-> dl, allowed_delimiter_field |-> af,
      target_field |-> tf, template |-> TemplateFile(t, dl)] :
        fs \in FieldLists, dl \in {"-", "_"}, af \in {kA, kB, <<"c">>},
        tf \in {kT, <<"t", ".", "s">>}, t \in Templates}

TemplatePatterns == {p \in Patterns_ : p.allowed_delimiter_field \in Range(p.fields)}

Fb == <<"f", "b">>
TemplateEvents == {
    D(<< <<kA, PyStr(<<"f">>)>>, <<kB, PyStr(<<"b">>)>>, <<kT, Old>> >>),
    D(<< <<kA, PyStr(<<"f">>)>>, <<kB, PyStr(<<"b">>)>> >>),
    D(<< <<kA, PyStr(<<"f">>)>>, <<kT, Old>> >>),
    D(<< <<kA, PyStr(<<"f">>)>>, <<kB, PyStr(<<"b">>)>>, <<kT, D(<< <<kS, Old>> >>)>> >>),
    D(<< <<kA, PyStr(<<"f">>)>>, <<kB, PyStr(<<"b">>)>>, <<kT, D(<< <<kU, Old>> >>)>> >>),
    D(<< <<kA, PyStr(<<"f">>)>>, <<kB, PyStr(<<"b">>)>>, <<kT, PyStr(<<"x", "s">>)>> >>),
    D(<< <<kA, PyStr(<<"f", "-", "x">>)>>, <<kB, PyStr(<<"b">>)>>, <<kT, Old>> >>),
    D(<< <<kA, PyStr(<<"f", "_", "x">>)>>, <<kB, PyStr(<<"b">>)>>, <<kT, Old>> >>),
    D(<< <<kA, PyStr(<<"f">>)>>, <<kB, PyStr(<<"x", "-", "x">>)>>, <<kT, Old>> >>),
    D(<< <<kA, PyStr(<<"f">>)>>, <<kB, PyStr(<<"b">>)>>, <<<<"c">>, PyStr(<<"x">>)>>, <<kT, Old>> >>),
    D(<< <<kA, PyStr(<<>>)>>, <<kB, PyStr(<<"f">>)>>, <<kT, Old>> >>),
    D(<< <<kA, PyStr(<<"f">>)>>, <<kB, PyStr(<<>>)>>, <<kT, Old>> >>),
    D(<< <<kA, PyStr(<<"z">>)>>, <<kB, PyStr(<<"b">>)>>, <<kT, Old>> >>),
    D(<< <<kA, PyInt(1)>>, <<kB, PyStr(<<"b">>)>>, <<kT, Old>> >>) }

\* before TemplateReplacer.__init__ is called with a pattern
TemplateInit ==
    /\ t_config \in TemplatePatterns
    /\ t_mapping = PyNone
    /\ t_state = "new"
    /\ t_event = EmptyDict
    /\ t_raised = NoError
    /\ t_prev = EmptyDict

\* the state after __init__ ended with st
Constructed(st) ==
    /\ t_state' = IF st.exc = NoError THEN "ready" ELSE "failed"
    /\ t_mapping' = IF st.exc = NoError THEN st.mapping ELSE PyNone
    /\ t_raised' = st.exc
    /\ UNCHANGED <<t_config, t_event, t_prev>>

\* TemplateReplacer.__init__(name, tree_config, template_path, pattern, logger)
tr__init__ ==
    /\ t_state = "new"
    /\ Constructed(LoadTemplate([mapping |-> EmptyDict, exc |-> NoError], t_config, 1))
    /\ UNCHANGED <<rvars, wvars>>

\* the state after process(event) ended with st
Processed(st) ==
    /\ t_event' = st.event
    /\ t_prev' = st.prev
    /\ t_raised' = st.exc
    /\ UNCHANGED <<t_config, t_mapping, t_state>>

\* TemplateReplacer.process(event), n rules matching the event
tr_process(ev, n) ==
    /\ t_state = "ready"
    /\ Processed(ApplyTimes([event |-> ev, exc |-> NoError, prev |-> ev, calls |-> 0],
                            t_mapping, t_config, n))
    /\ UNCHANGED <<rvars, wvars>>

TemplateNext ==
    \/ tr__init__
    \/ \E ev \in TemplateEvents, n \in 1..MaxRules : tr_process(ev, n)

TemplateStart == ResolverInit /\ TemplateInit /\ RaceIdle

TemplateSpec == TemplateStart /\ [][TemplateNext]_vars

\* the TemplateReplacer is not in use
TemplateIdle ==
    /\ t_config = <<>>
    /\ t_mapping = PyNone
    /\ t_state = "new"
    /\ t_event = EmptyDict
    /\ t_raised = NoError
    /\ t_prev = EmptyDict

Init == ResolverInit /\ TemplateIdle /\ RaceIdle

Next ==
    \/ \E ev \in Events, rules \in MatchingRules : process(ev, rules)
    \/ \E order \in AllScanOrders, fault \in Faults : ApplyRule(order, fault)
    \/ Return
    \/ NewWorker

Spec == Init /\ [][Next]_vars

\* the lifetime of workers that get one matching rule per event, on a file
\* system that refuses nothing, with the history of their steps kept
LifetimeNext ==
    \/ \E ev \in Events, i \in 1..Len(Rules) : process(ev, <<Rules[i]>>)
    \/ \E order \in AllScanOrders : TrackedApplyRule(order)
    \/ Return
    \/ Restart

LifetimeSpec == Init /\ [][LifetimeNext]_vars

-----------------------------------------------------------------------------
(* Several worker processes, each with its own GenericResolver, use one     *)
(* rule for the first time and share the persistence directory.  Each step  *)
(* is one file system call or one library call of _get_hyperscan_database.  *)

\* the number of worker processes
NumWorkers == 2

Workers == 1..NumWorkers

\* a file just opened with "wb": created or truncated, nothing written yet
Truncated == [magic |-> "", size |-> 0, patterns |-> <<>>]

RaceFile == DbFile(hyperscan_database_path, race_rule.file_name)

\* a worker before its first use of the rule
Fresh == [pc |-> "start", io |-> <<>>, data |-> Truncated, db |-> Database,
          value_mapping |-> <<>>, exc |-> NoError, cache |-> <<>>]

RaceInit ==
    /\ hyperscan_databases = <<>>
    /\ disk \in {[dir |-> d, files |-> <<>>, fault |-> "none"] : d \in BOOLEAN}
    /\ event = EmptyDict
    /\ pending = <<>>
    /\ phase = "idle"
    /\ raised = NotRaised
    /\ applied = <<>>
    /\ io_done = <<>>
    /\ TemplateIdle
    /\ race_rule \in Range(Rules)
    /\ workers = [w \in Workers |-> Fresh]

\* worker w moves on, only the disk and the workers change
Moves(w, to) ==
    /\ workers' = [workers EXCEPT ![w] = to]
    /\ UNCHANGED <<hyperscan_databases, event, pending, phase, raised, applied, io_done,
                   race_rule>>
    /\ UNCHANGED tvars

\* line 147: "if database_id not in self._hyperscan_databases.keys()"
W_Lookup(w) ==
    /\ workers[w].pc = "start"
    /\ Moves(w, [workers[w] EXCEPT
                   !.pc = IF race_rule.file_name \in DOMAIN workers[w].cache
                          THEN "done" ELSE "open"])
    /\ UNCHANGED disk

\* line 165: open(..., "rb"); FileNotFoundError leads to line 151
W_Open(w) ==
    /\ workers[w].pc = "open"
    /\ Moves(w, [workers[w] EXCEPT
                   !.pc = IF RaceFile \in DOMAIN disk.files THEN "read" ELSE "compile",
                   !.io = <<"load">>])
    /\ UNCHANGED disk

\* line 166: data = f.read(), what the file holds at this moment
W_Read(w) ==
    /\ workers[w].pc = "read"
    /\ Moves(w, [workers[w] EXCEPT !.pc = "loadb", !.data = disk.files[RaceFile]])
    /\ UNCHANGED disk

\* lines 168-171: the value mapping and loadb(data); hyperscan.error leaves
\* _get_hyperscan_database
W_Loadb(w) ==
    /\ workers[w].pc = "loadb"
    /\ Moves(w, IF Deserializable(workers[w].data)
                THEN [workers[w] EXCEPT !.pc = "cache",
                                        !.db = loadb(workers[w].data),
                                        !.value_mapping = ValueMapping(race_rule.resolve_list)]
                ELSE [workers[w] EXCEPT !.pc = "failed", !.exc = "hyperscan.error"])
    /\ UNCHANGED disk

\* lines 151-153: _create_database(resolve_list)
W_Compile(w) ==
    /\ workers[w].pc = "compile"
    /\ Moves(w, IF _create_database(race_rule.resolve_list).exc # NoError
                THEN [workers[w] EXCEPT !.pc = "failed", !.io = <<"load", "compile">>,
                        !.exc = _create_database(race_rule.resolve_list).exc]
                ELSE [workers[w] EXCEPT
                        !.pc = IF race_rule.store_db_persistent THEN "makedirs" ELSE "cache",
                        !.io = <<"load", "compile">>,
                        !.db = _create_database(race_rule.resolve_list).db,
                        !.value_mapping =
                            _create_database(race_rule.resolve_list).value_mapping])
    /\ UNCHANGED disk

\* line 174: _create_hyperscan_dbs_dir(self._hyperscan_database_path)
W_MakeDirs(w) ==
    /\ workers[w].pc = "makedirs"
    /\ disk' = _create_hyperscan_dbs_dir(disk).disk
    /\ Moves(w, [workers[w] EXCEPT
                   !.pc = IF _create_hyperscan_dbs_dir(disk).exc = NoError
                          THEN "open_wb" ELSE "failed",
                   !.io = <<"load", "compile", "save">>,
                   !.exc = _create_hyperscan_dbs_dir(disk).exc])

\* lines 175-177: serialized_db = dumpb(database); open(..., "wb") creates
\* the file or cuts it to length 0
W_OpenWb(w) ==
    /\ workers[w].pc = "open_wb"
    /\ disk' = [disk EXCEPT !.files = Put(disk.files, RaceFile, Truncated)]
    /\ Moves(w, [workers[w] EXCEPT !.pc = "write_header",
                                   !.data = dumpb(workers[w].db)])

\* line 178: f.write(serialized_db), the header of the blob reaching the file
W_WriteHeader(w) ==
    /\ workers[w].pc = "write_header"
    /\ disk' = [disk EXCEPT !.files[RaceFile].magic = workers[w].data.magic,
                            !.files[RaceFile].size = workers[w].data.size]
    /\ Moves(w, [workers[w] EXCEPT !.pc = "write_body"])

\* line 178: f.write(serialized_db), the rest of the blob reaching the file
W_WriteBody(w) ==
    /\ workers[w].pc = "write_body"
    /\ disk' = [disk EXCEPT !.files[RaceFile].patterns = workers[w].data.patterns]
    /\ Moves(w, [workers[w] EXCEPT !.pc = "cache"])

\* lines 156-160: the cache entry is made and returned
W_Cache(w) ==
    /\ workers[w].pc = "cache"
    /\ Moves(w, [workers[w] EXCEPT
                   !.pc = "done",
                   !.cache = Put(workers[w].cache, race_rule.file_name,
                                 [db |-> workers[w].db,
                                  value_mapping |-> workers[w].value_mapping])])
    /\ UNCHANGED disk

RaceNext ==
    \E w \in Workers :
        \/ W_Lookup(w)
        \/ W_Open(w)
        \/ W_Read(w)
        \/ W_Loadb(w)
        \/ W_Compile(w)
        \/ W_MakeDirs(w)
        \/ W_OpenWb(w)
        \/ W_WriteHeader(w)
        \/ W_WriteBody(w)
        \/ W_Cache(w)

RaceSpec == RaceInit /\ [][RaceNext]_vars

-----------------------------------------------------------------------------
(* Properties of the resolver *)

Applications == {applied[i] : i \in 1..Len(applied)}
Mappings(a) == {a.log[i] : i \in 1..Len(a.log)}

\* the ids of the patterns of db that match data, whatever the report order
MatchedIds(db, data) ==
    {db.ids[k] : k \in {j \in 1..Len(db.ids) :
                           MatchEnds(db.expressions[j], db.flags[j], data) # {}}}

\* the ids matched by the source value of mapping m of application a
M(a, m) == IF IsStr(m.src_val) THEN MatchedIds(a.db, m.src_val.s) ELSE {}

SetMin(S) == CHOOSE m \in S : \A x \in S : m <= x

\* a write of the target path succeeds on doc: no value other than a
\* mapping on the way, and the final key absent (or a list, when appending)
RECURSIVE Writable(_, _, _)
Writable(doc, keys, append) ==
    IF Len(keys) = 1
    THEN \/ Head(keys) \notin DOMAIN doc.d
         \/ append /\ IsList(doc.d[Head(keys)])
    ELSE \/ Head(keys) \notin DOMAIN doc.d
         \/ /\ IsDict(doc.d[Head(keys)])
            /\ Writable(doc.d[Head(keys)], Tail(keys), append)

TargetKeys(m) == Split(m.target, ".")

\* the target path of doc holds v (as its value, or as an element when appending)
Holds(doc, keys, v, append) ==
    LET tgt == GetDotted(doc, keys)
    IN  IF append THEN IsList(tgt) /\ InList(v, tgt) ELSE tgt = v

IsScalar(v) == v.t \in {"str", "int"}

\* C1: whenever a field mapping's source matches the non-empty set M of
\* pattern ids, its target is writable and the write runs to its end, the
\* target then holds idToValue[min(M)], in whatever order the automaton
\* reported the ids.
C1_TieBreak ==
    \A a \in Applications : \A m \in Mappings(a) :
        ( /\ M(a, m) # {}
          /\ Writable(m.before, TargetKeys(m), a.rule.append_to_list)
          /\ m.exc = NoError )
        => /\ SetMin(M(a, m)) \in DOMAIN a.value_mapping
           /\ Holds(m.after, TargetKeys(m), a.value_mapping[SetMin(M(a, m))],
                    a.rule.append_to_list)

\* a write chose the smaller id although the automaton reported it last
C1_Witness ==
    \E a \in Applications : \E m \in Mappings(a) :
        /\ Len(m.result) = 2 /\ m.result[1] > m.result[2]
        /\ ~a.rule.append_to_list
        /\ Writable(m.before, TargetKeys(m), FALSE)
        /\ GetDotted(m.after, TargetKeys(m)) = a.value_mapping[m.result[2]]

\* the two mappings of a both match and both target a scalar held before the call
BothConflict(a) ==
    /\ Len(a.rule.field_mapping) = 2
    /\ Len(a.log) >= 1
    /\ \A i \in 1..2 :
        LET fm == a.rule.field_mapping[i]
            src == _get_dotted_field_value(a.before, fm.source)
        IN  /\ IsStr(src) /\ MatchedIds(a.db, src.s) # {}
            /\ IsScalar(_get_dotted_field_value(a.before, fm.target))

\* C2: a rule with two field mappings whose sources both match and whose
\* targets both hold scalars ends in one DuplicationError that reports both
\* targets, and both targets hold afterwards what they held before.
C2_ConflictAggregation ==
    \A a \in Applications :
        BothConflict(a) =>
            /\ a.raised.type = "DuplicationError"
            /\ Len(a.raised.skipped_fields) = 2
            /\ \A i \in 1..2 :
                LET fm == a.rule.field_mapping[i]
                IN  /\ a.raised.skipped_fields[i] = Last(Split(fm.target, "."))
                    /\ _get_dotted_field_value(a.after, fm.target)
                         = _get_dotted_field_value(a.before, fm.target)
            /\ a.raised.message = Join(<<" ">>, a.raised.skipped_fields)

C2_Witness ==
    \E a \in Applications : BothConflict(a) /\ a.raised.type = "DuplicationError"

\* C3: apply does not stop at a conflict.  Unless another exception ends it,
\* every field mapping of the rule is attempted, every mapping whose source
\* matches and whose target is writable has its value in the event that the
\* caller gets back, and DuplicationError is raised, once and after the last
\* mapping, exactly when some mapping conflicted, with all the conflicts.
C3_NoShortCircuit ==
    \A a \in Applications :
        a.raised.type \in {NoError, "DuplicationError"} =>
            /\ Len(a.log) = Len(a.rule.field_mapping)
            /\ \A m \in Mappings(a) :
                 (M(a, m) # {} /\ Writable(m.before, TargetKeys(m), a.rule.append_to_list))
                 => Holds(a.after, TargetKeys(m), a.value_mapping[SetMin(M(a, m))],
                          a.rule.append_to_list)
            /\ (a.raised.type = "DuplicationError")
                 <=> (\E m \in Mappings(a) : m.conflicts # <<>>)
            /\ \A m \in Mappings(a) : \A i \in 1..Len(m.conflicts) :
                 m.conflicts[i] \in Range(a.raised.skipped_fields)

\* the first mapping conflicted and the second was written all the same
C3_Witness ==
    \E a \in Applications :
        /\ a.raised.type = "DuplicationError"
        /\ Len(a.log) = 2
        /\ a.log[1].conflicts # <<>>
        /\ a.log[2].conflicts = <<>>
        /\ a.log[2].after # a.log[2].before
        /\ Holds(a.after, TargetKeys(a.log[2]), Y, a.rule.append_to_list)

\* how often item occurs in a list
Count(item, lst) == Cardinality({i \in 1..Len(lst.l) : lst.l[i] = item})

\* C4: append-unique is idempotent.  When an appendToList rule is applied a
\* second time to the same event, every target list it resolved into holds
\* the resolved value exactly once, and the second application changes
\* nothing and raises no DuplicationError.
C4_AppendUniqueIdempotent ==
    \A i \in 1..(Len(applied) - 1) :
        LET a == applied[i]
            b == applied[i + 1]
        IN  ( /\ a.rule = b.rule
              /\ a.rule.append_to_list
              /\ a.raised.type = NoError /\ b.raised.type = NoError )
            => /\ b.after = b.before
               /\ \A m \in Mappings(b) :
                    (M(b, m) # {} /\ IsList(GetDotted(b.after, TargetKeys(m))))
                    => Count(b.value_mapping[SetMin(M(b, m))],
                             GetDotted(b.after, TargetKeys(m))) = 1

\* the step is a turn of process()'s loop: _apply_rules on Head(pending)
ApplyStep == phase = "running" /\ applied' # applied

\* the call of application a was ended by a refusal of the file system
IoFailed(a) == a.raised.type = "PermissionError"

\* the file system refused nothing during the call of application a
Undisturbed(a) == a.fault = "none"

\* C8: an identity that is in the in-memory cache stays there with the same
\* entry over every _apply_rules call, whatever the call raises; and an
\* acquire for it returns that entry with no load, compile or save and
\* leaves the disk alone.
C8_CacheHitStable ==
    [][ApplyStep =>
          \A id \in DOMAIN hyperscan_databases :
             /\ id \in DOMAIN hyperscan_databases'
             /\ hyperscan_databases'[id] = hyperscan_databases[id]
             /\ id = Head(pending).file_name =>
                  /\ Last(applied').io = <<>>
                  /\ disk' = disk
                  /\ Last(applied').db = hyperscan_databases[id].db
                  /\ Last(applied').value_mapping = hyperscan_databases[id].value_mapping
      ]_vars

\* a cached identity was acquired by a call that ended in DuplicationError
C8_Witness ==
    \E a \in Applications :
        a.cached /\ a.io = <<>> /\ a.raised.type = "DuplicationError"

\* the values of a resolve list, by position: id i |-> value of entry i+1
ValuesInOrder(resolve_list) ==
    [i \in 0..(Len(resolve_list) - 1) |-> resolve_list[i + 1].value]

PatternsOf(resolve_list) == [i \in 1..Len(resolve_list) |-> resolve_list[i].pattern]

\* C9: on a cache miss with <directory>/<identity>.db on disk, acquire
\* (the file system refusing nothing) returns the database of that
\* file, compiles nothing and writes nothing, and the id-to-value mapping is
\* that of the rule's current resolveList.
C9_LoadPreferred ==
    [][( /\ ApplyStep
         /\ Head(pending).file_name \notin DOMAIN hyperscan_databases
         /\ DbFile(hyperscan_database_path, Head(pending).file_name) \in DOMAIN disk.files
         /\ Undisturbed(Last(applied')) )
       => LET a == Last(applied')
              f == DbFile(hyperscan_database_path, Head(pending).file_name)
          IN  /\ a.io = <<"load">>
              /\ disk' = disk
              /\ a.db = loadb(disk.files[f])
              /\ a.value_mapping = ValuesInOrder(Head(pending).resolve_list)
              /\ hyperscan_databases'[Head(pending).file_name]
                   = [db |-> a.db, value_mapping |-> a.value_mapping]
      ]_vars

\* a blob persisted from another pattern list was loaded and used as it is
C9_Witness ==
    \E a \in Applications :
        /\ a.io = <<"load">>
        /\ a.db.expressions # PatternsOf(a.rule.resolve_list)
        /\ a.value_mapping = ValuesInOrder(a.rule.resolve_list)

\* inputs to compare two databases on
ScanInputs == {Abc, <<"a", "b", "d">>, <<"A", "B", "C">>, <<"z", "z">>, <<"a", "b">>}

PendingFile == DbFile(hyperscan_database_path, Head(pending).file_name)

\* C11: an acquire for an uncached identity with no persisted file and an
\* empty resolveList raises the compile error, writes no file and adds no
\* cache entry; for a non-empty resolveList the compiled database has the
\* patterns in resolveList order with ids 0, 1, ..., and idToValue[i] is the
\* value of the i-th entry.  (Calls that the file system refused are the
\* subject of C16.)
C11_CompileContract ==
    [][( /\ ApplyStep
         /\ Head(pending).file_name \notin DOMAIN hyperscan_databases
         /\ PendingFile \notin DOMAIN disk.files
         /\ Undisturbed(Last(applied')) )
       => LET a == Last(applied')
              R == Head(pending).resolve_list
          IN  IF R = <<>>
              THEN /\ a.raised.type = "GenericResolverError"
                   /\ disk' = disk
                   /\ hyperscan_databases' = hyperscan_databases
                   /\ event' = event
              ELSE /\ a.db.expressions = PatternsOf(R)
                   /\ a.db.ids = [k \in 1..Len(R) |-> k - 1]
                   /\ a.value_mapping = ValuesInOrder(R)
      ]_vars

\* one process() call compiled a two-pattern list and then failed to compile
\* the empty list
C11_Witness ==
    \E a \in Applications : \E b \in Applications :
        /\ a.io = <<"load", "compile", "save">>
        /\ Undisturbed(a)
        /\ a.db.ids = <<0, 1>>
        /\ b.rule.resolve_list = <<>>
        /\ b.raised.type = "GenericResolverError"
        /\ b.rule.file_name \notin DOMAIN hyperscan_databases

\* doc with v at the key path, the mappings missing on the way created
RECURSIVE WithPath(_, _, _)
WithPath(doc, keys, v) ==
    IF Len(keys) = 1 THEN PyDict(Put(doc.d, Head(keys), v))
    ELSE PyDict(Put(doc.d, Head(keys),
                    WithPath(IF Head(keys) \in DOMAIN doc.d THEN doc.d[Head(keys)]
                             ELSE EmptyDict,
                             Tail(keys), v)))

\* the value the write of mapping m resolves to
Resolved(a, m) == a.value_mapping[SetMin(M(a, m))]

\* the source of mapping m matched and the matched id has a value
Matched(a, m) == M(a, m) # {} /\ SetMin(M(a, m)) \in DOMAIN a.value_mapping

\* C12: in appendUnique mode a write whose final key is absent from its
\* parent mapping sets it to a new list holding just the resolved value,
\* whatever else the parent holds, and changes nothing else in the event.
C12_AppendAbsentCreatesList ==
    \A a \in Applications : \A m \in Mappings(a) :
        ( /\ a.rule.append_to_list
          /\ Matched(a, m)
          /\ Writable(m.before, TargetKeys(m), FALSE) )
        => LET tgt == GetDotted(m.after, TargetKeys(m))
           IN  /\ m.exc = NoError
               /\ IsList(tgt)
               /\ tgt.l = <<Resolved(a, m)>>
               /\ tgt.o \notin Oids(m.before)
               /\ m.after = WithPath(m.before, TargetKeys(m), tgt)

\* C13: a write whose final key holds a mapping leaves the event as it is,
\* records a conflict, and the DuplicationError of the call reports the
\* target.
C13_SubtreeConflict ==
    \A a \in Applications : \A m \in Mappings(a) :
        ( /\ Matched(a, m)
          /\ IsDict(GetDotted(m.before, TargetKeys(m))) )
        => /\ m.after = m.before
           /\ m.conflicts # <<>>
           /\ a.raised.type = "DuplicationError"
           /\ \E f \in Range(a.raised.skipped_fields) :
                f \in {m.target, Last(TargetKeys(m))}

\* the length of the shortest prefix of keys whose value in doc is not a
\* mapping; 0 if a key on the way is absent or every value is a mapping
RECURSIVE Blocked(_, _, _)
Blocked(doc, keys, n) ==
    IF n > Len(keys) \/ keys[n] \notin DOMAIN doc.d THEN 0
    ELSE IF IsDict(doc.d[keys[n]]) THEN Blocked(doc.d[keys[n]], keys, n + 1)
    ELSE n

\* the write of keys into doc hits a conflict: a value that is not a mapping
\* on the path, other than a list at the final key when appending
Conflicting(doc, keys, append) ==
    /\ Blocked(doc, keys, 1) > 0
    /\ ~( /\ append
          /\ Blocked(doc, keys, 1) = Len(keys)
          /\ IsList(GetDotted(doc, keys)) )

\* C14: a write that hits a conflict records it and leaves the event as it
\* was: no key is created and no value is changed.
C14_ConflictLeavesEvent ==
    \A a \in Applications : \A m \in Mappings(a) :
        ( /\ Matched(a, m)
          /\ Conflicting(m.before, TargetKeys(m), a.rule.append_to_list) )
        => /\ m.conflicts # <<>>
           /\ m.after = m.before

\* the dotted path of the value that blocks the write of keys into doc
ConflictPath(doc, keys) == Join(<<".">>, SubSeq(keys, 1, Blocked(doc, keys, 1)))

\* C15: the DuplicationError of a call lists, for every mapping that
\* conflicted, the dotted path of the conflicting value.
C15_DottedConflictPaths ==
    \A a \in Applications :
        a.raised.type = "DuplicationError" =>
            \A m \in Mappings(a) :
                ( /\ Matched(a, m)
                  /\ Conflicting(m.before, TargetKeys(m), a.rule.append_to_list) )
                => ConflictPath(m.before, TargetKeys(m)) \in Range(a.raised.skipped_fields)

\* C20: the field mappings of a rule are applied in declaration order, each
\* on the event as the mappings before it left it: the source value a
\* mapping resolves is the one found in that event, so a mapping whose
\* source is the target of the mapping before it resolves the value that
\* mapping wrote.
C20_DeclarationOrder ==
    \A a \in Applications : \A i \in 1..Len(a.log) :
        LET m == a.log[i]
        IN  /\ m.source = a.rule.field_mapping[i].source
            /\ m.target = a.rule.field_mapping[i].target
            /\ m.before = IF i = 1 THEN a.before ELSE a.log[i - 1].after
            /\ m.src_val = _get_dotted_field_value(m.before, m.source)
            /\ ( /\ i > 1
                 /\ m.source = a.log[i - 1].target
                 /\ ~a.rule.append_to_list
                 /\ Matched(a, a.log[i - 1])
                 /\ Writable(a.log[i - 1].before, TargetKeys(a.log[i - 1]), FALSE) )
               => m.src_val = Resolved(a, a.log[i - 1])

\* the second mapping resolved the value the first had written to t, and
\* wrote its own value to u
C20_Witness ==
    \E a \in Applications :
        /\ Len(a.log) = 2
        /\ a.log[2].source = a.log[1].target
        /\ _get_dotted_field_value(a.before, a.log[2].source) = PyNone
        /\ a.log[2].src_val = PyStr(<<"a", "b">>)
        /\ _get_dotted_field_value(a.after, a.log[2].target) = W

\* C16: of the failures of the load only the missing file leads to a
\* compile; when the file system refuses the read, the directory creation
\* or the write, the exception reaches the caller, the cache and the event
\* are as before, and the next acquire of the identity starts with the load
\* again.
C16_IoErrorsPropagate ==
    [][( /\ ApplyStep
         /\ Head(pending).file_name \notin DOMAIN hyperscan_databases )
       => LET a == Last(applied')
          IN  /\ (Len(a.io) > 1) =>
                    /\ a.io[2] = "compile"
                    /\ PendingFile \notin DOMAIN disk.files
              /\ IoFailed(a) =>
                    /\ raised' = a.raised
                    /\ phase' = "done"
                    /\ hyperscan_databases' = hyperscan_databases
                    /\ event' = event
                    /\ _get_hyperscan_database(hyperscan_database_path,
                                               hyperscan_databases', disk',
                                               Head(pending)).io[1] = "load"
      ]_vars

\* the read of a persisted file was refused: the call raised, compiled
\* nothing and left no cache entry
C16_Witness ==
    \E a \in Applications :
        /\ IoFailed(a)
        /\ a.io = <<"load">>
        /\ DbFile(hyperscan_database_path, a.rule.file_name) \in DOMAIN disk.files
        /\ a.rule.file_name \notin DOMAIN hyperscan_databases
        /\ phase = "done"

\* C19: on a cache miss with no persisted file (the resolveList compiling
\* and the file system refusing nothing) acquire compiles the resolveList;
\* it writes <directory>/<identity>.db, creating the directory if it is not
\* there, exactly when storeDbPersistent is true, and leaves the disk alone
\* otherwise; either way the identity is cached afterwards with the compiled
\* database.
C19_PersistIffRequested ==
    [][( /\ ApplyStep
         /\ Head(pending).file_name \notin DOMAIN hyperscan_databases
         /\ PendingFile \notin DOMAIN disk.files
         /\ Head(pending).resolve_list # <<>>
         /\ Undisturbed(Last(applied')) )
       => LET a  == Last(applied')
              id == Head(pending).file_name
          IN  /\ a.raised.type # "PermissionError"
              /\ a.db.expressions = PatternsOf(Head(pending).resolve_list)
              /\ IF Head(pending).store_db_persistent
                 THEN /\ a.io = <<"load", "compile", "save">>
                      /\ disk'.dir
                      /\ disk'.files = Put(disk.files, PendingFile, dumpb(a.db))
                 ELSE /\ a.io = <<"load", "compile">>
                      /\ disk' = disk
              /\ id \in DOMAIN hyperscan_databases'
              /\ hyperscan_databases'[id] = [db |-> a.db, value_mapping |-> a.value_mapping]
      ]_vars

\* one process() call compiled and persisted an identity and compiled
\* another without persisting it
C19_Witness ==
    \E a \in Applications : \E b \in Applications :
        /\ a.io = <<"load", "compile", "save">> /\ Undisturbed(a)
        /\ DbFile(hyperscan_database_path, a.rule.file_name) \in DOMAIN disk.files
        /\ b.io = <<"load", "compile">> /\ b.raised.type # "GenericResolverError"
        /\ DbFile(hyperscan_database_path, b.rule.file_name) \notin DOMAIN disk.files
        /\ {a.rule.file_name, b.rule.file_name} \subseteq DOMAIN hyperscan_databases

\* C18: within one worker the disk load, the compile and the persist of a
\* database are each made at most once per rule identity: no _apply_rules
\* call makes a step for an identity that the worker has made for it before.
C18_OncePerIdentity ==
    [][ApplyStep =>
          \A op \in Range(Last(applied').io) :
             ~( /\ Head(pending).file_name \in DOMAIN io_done
                /\ op \in io_done[Head(pending).file_name] )
      ]_vars

\* every worker has left _get_hyperscan_database
RaceOver == \A w \in Workers : workers[w].pc \in {"done", "failed"}

\* C17: with no lock, under every interleaving of the workers' steps, each
\* worker that completes the acquire has cached the database and the value
\* mapping that compile(R) gives, and once all workers are through, the
\* file <identity>.db (there if R compiles and is to be persisted) holds
\* the serialization of compile(R).
C17_BenignRace ==
    /\ \A w \in Workers :
         workers[w].pc = "done" =>
            /\ race_rule.file_name \in DOMAIN workers[w].cache
            /\ workers[w].cache[race_rule.file_name] =
                 [db |-> _create_database(race_rule.resolve_list).db,
                  value_mapping |-> ValuesInOrder(race_rule.resolve_list)]
            /\ \A data \in ScanInputs :
                 \A order \in ScanOrders(Len(race_rule.resolve_list)) :
                    scan(workers[w].cache[race_rule.file_name].db, data, order)
                      = scan(_create_database(race_rule.resolve_list).db, data, order)
    /\ RaceOver =>
         /\ (race_rule.store_db_persistent /\ race_rule.resolve_list # <<>>)
              <=> RaceFile \in DOMAIN disk.files
         /\ RaceFile \in DOMAIN disk.files =>
              disk.files[RaceFile] = dumpb(_create_database(race_rule.resolve_list).db)

\* two workers both compiled and wrote the file, a third party to the race
\* or none read it; all are through
C17_Witness ==
    /\ RaceOver
    /\ \E v \in Workers : \E w \in Workers :
         /\ v # w
         /\ workers[v].io = <<"load", "compile", "save">> /\ workers[v].pc = "done"
         /\ workers[w].io = <<"load", "compile", "save">> /\ workers[w].pc = "done"
    /\ RaceFile \in DOMAIN disk.files

\* mapping m of application a has nothing to resolve: its source is absent
\* or falsy, or is a string that no pattern of the database matches
NothingToResolve(a, m) ==
    \/ ~Truthy(m.src_val)
    \/ IsStr(m.src_val) /\ M(a, m) = {}

Acquired(a) ==
    a.raised.type \notin {"PermissionError", "GenericResolverError", "hyperscan.error"}

\* C23: every acquire returns the rule's own resolveList values in
\* declaration order as idToValue and the automaton of the rule's own
\* patterns, also when another rule with the same fileIdentity and another
\* resolveList was acquired before.
C23_OwnDatabase ==
    \A a \in Applications :
        Acquired(a) =>
            /\ a.value_mapping = ValuesInOrder(a.rule.resolve_list)
            /\ a.db.expressions = PatternsOf(a.rule.resolve_list)
            /\ a.db.ids = [k \in 1..Len(a.rule.resolve_list) |-> k - 1]

\* C24: in every apply the smallest matched pattern id is a key of the
\* idToValue mapping that acquire returned, and the value lookup does not
\* fail.
C24_ChosenIdHasValue ==
    \A a \in Applications : \A m \in Mappings(a) :
        (IsStr(m.src_val) /\ M(a, m) # {}) =>
            /\ SetMin(M(a, m)) \in DOMAIN a.value_mapping
            /\ m.exc # "KeyError"
            /\ a.raised.type # "KeyError"

\* C25: in appendUnique mode a list that the write meets at a segment of
\* the target path other than the final key is left as it is.
C25_OnlyFinalListAppended ==
    \A a \in Applications : \A m \in Mappings(a) :
        LET keys == TargetKeys(m)
            n    == Blocked(m.before, keys, 1)
        IN  ( /\ a.rule.append_to_list
              /\ Matched(a, m)
              /\ n > 0 /\ n < Len(keys)
              /\ IsList(GetDotted(m.before, SubSeq(keys, 1, n))) )
            => GetDotted(m.after, SubSeq(keys, 1, n))
                 = GetDotted(m.before, SubSeq(keys, 1, n))

\* C27: process applies the matching rules in the order of rule dispatch,
\* each to the event as the rule before left it.  A DuplicationError raised
\* by a rule ends the processing of the event: the rules after it are not
\* applied, and the event keeps the writes of that rule and of the rules
\* before it.
C27_RaiseEndsProcessing ==
    [][ /\ ApplyStep =>
             LET a == Last(applied')
             IN  /\ applied' = Append(applied, a)
                 /\ a.rule = Head(pending)
                 /\ a.before = event
                 /\ event' = a.after
                 /\ raised' = a.raised
                 /\ a.raised.type = "DuplicationError" =>
                        /\ pending' = <<>>
                        /\ phase' = "done"
                 /\ a.raised.type = NoError =>
                        /\ pending' = Tail(pending)
                        /\ phase' = IF pending' = <<>> THEN "done" ELSE "running"
        /\ phase = "done" =>
             \/ applied' = applied /\ event' = event
             \/ applied' = <<>> /\ phase' = "idle"
      ]_vars

\* two rules were applied to one event: the first wrote a field, the second
\* wrote another field and raised DuplicationError for a field it found
\* held; both writes are in the event and processing is over
C27_Witness ==
    /\ Len(applied) = 2
    /\ applied[1].raised.type = NoError
    /\ applied[1].after # applied[1].before
    /\ applied[2].before = applied[1].after
    /\ applied[2].raised.type = "DuplicationError"
    /\ applied[2].after # applied[2].before
    /\ event = applied[2].after
    /\ phase = "done"
    /\ pending = <<>>

-----------------------------------------------------------------------------
(* Properties of the template replacer *)

F == Len(t_config.fields)
A == IndexOf(t_config.fields, t_config.allowed_delimiter_field)
TargetPath == Split(t_config.target_field, ".")

\* the path exists in doc: every key is present and every value on the way
\* to the last key is a mapping
RECURSIVE PathExists(_, _)
PathExists(doc, keys) ==
    IF keys = <<>> THEN TRUE
    ELSE /\ IsDict(doc)
         /\ Head(keys) \in DOMAIN doc.d
         /\ PathExists(doc.d[Head(keys)], Tail(keys))

\* the payload that the values of the configured fields of ev select in the
\* index from level i on, None if a field is absent or a level has no entry
RECURSIVE Payload(_, _, _)
Payload(index, ev, i) ==
    IF i > F THEN index
    ELSE LET v == GetDotted(ev, Split(t_config.fields[i], "."))
         IN  IF v = PyNone \/ ~IsDict(index) THEN PyNone
             ELSE IF str(v) \notin DOMAIN index.d THEN PyNone
             ELSE Payload(index.d[str(v)], ev, i + 1)

\* process() made at least one _apply_rules call on a constructed engine
TemplateApplied == t_state = "ready" /\ t_event # EmptyDict

\* C5: the template engine changes the event only when every configured
\* field is present, the values select a payload through all F levels and
\* the target path exists; the target then is the payload and the rest of
\* the event is as before.  When the target path does not exist, the event
\* is unchanged and no error is raised.
C5_RewriteOnlyExisting ==
    TemplateApplied =>
        /\ t_event # t_prev =>
             /\ Payload(t_mapping, t_prev, 1) # PyNone
             /\ PathExists(t_prev, TargetPath)
             /\ t_event = SetAt(t_prev, TargetPath, Payload(t_mapping, t_prev, 1))
        /\ ~PathExists(t_prev, TargetPath) =>
             /\ t_event = t_prev
             /\ t_raised = NoError

\* the raw tokens of the i-th composite key of the template file
Tokens(i) == Split(t_config.template[i].key, t_config.delimiter)

\* tokens[0:A], then join(tokens[A : n-(F-A-1)]), then the last F-A-1 tokens
ExpectedKeys(tokens) ==
    SubSeq(tokens, 1, A)
    \o <<Join(<<"-">>, SubSeq(tokens, A + 1, Len(tokens) - (F - A - 1)))>>
    \o SubSeq(tokens, Len(tokens) - (F - A - 1) + 1, Len(tokens))

\* C6: for every allowDelimiterFieldIndex A in 0..F-1, a template whose
\* composite keys all split into at least F raw tokens is accepted, and
\* each key is stored under exactly the F keys tokens[0:A],
\* join(tokens[A : n-(F-A-1)]), last F-A-1 tokens.
C6_Recombination ==
    (t_state # "new" /\ \A i \in 1..Len(t_config.template) : Len(Tokens(i)) >= F)
    => /\ t_state = "ready"
       /\ \A i \in 1..Len(t_config.template) :
            /\ Len(ExpectedKeys(Tokens(i))) = F
            /\ PathExists(t_mapping, ExpectedKeys(Tokens(i)))

\* C7: construction fails, and produces no index, whenever a composite key
\* of the template does not decompose into exactly F field tokens, in
\* particular whenever its split yields fewer than F raw tokens.
C7_TooFewTokensRejected ==
    (t_state # "new" /\ \E i \in 1..Len(t_config.template) : Len(Tokens(i)) < F)
    => /\ t_state = "failed"
       /\ t_raised = "TemplateReplacerError"
       /\ t_mapping = PyNone

\* the value of the i-th configured field in ev, None if the field is absent
FieldValue(ev, i) == GetDotted(ev, Split(t_config.fields[i], "."))

\* the stringified values of the first i configured fields
KeysOf(ev, i) == [j \in 1..i |-> str(FieldValue(ev, j))]

\* a configured field is absent from ev
AbsentField(ev) == \E i \in 1..F : FieldValue(ev, i) = PyNone

\* the stringified value of some field is not a key at its level of the
\* index, the levels being taken in the order of the configured fields
NotAKey(index, ev) ==
    \E i \in 1..F :
        /\ \A j \in 1..i : FieldValue(ev, j) # PyNone
        /\ ~PathExists(index, KeysOf(ev, i))

\* C22: when a configured field is absent from the event, or the
\* stringified value of a field is not a key at the corresponding level of
\* the index (one level per field, in configured order), the apply ends
\* with the event unchanged and raises nothing.
C22_MissLeavesEvent ==
    (TemplateApplied /\ (AbsentField(t_prev) \/ NotAKey(t_mapping, t_prev)))
    => /\ t_event = t_prev
       /\ t_raised = NoError

\* a later field is absent although the first selects a level of the index,
\* the target exists, and the event is as it was
C22_Witness ==
    /\ TemplateApplied
    /\ F >= 2
    /\ FieldValue(t_prev, 1) # PyNone
    /\ PathExists(t_mapping, KeysOf(t_prev, 1))
    /\ FieldValue(t_prev, 2) = PyNone
    /\ PathExists(t_prev, TargetPath)
    /\ t_event = t_prev
    /\ t_raised = NoError

\* the field values that the i-th composite key of the template file stands
\* for: its tokens, those of the field that may hold the delimiter joined
\* again by the delimiter
FieldTokens(i) ==
    LET tokens == Tokens(i)
    IN  SubSeq(tokens, 1, A)
        \o <<Join(<<t_config.delimiter>>, SubSeq(tokens, A + 1, Len(tokens) - (F - A - 1)))>>
        \o SubSeq(tokens, Len(tokens) - (F - A - 1) + 1, Len(tokens))

\* ev carries exactly the field values of the i-th entry of the template
Carries(ev, i) ==
    /\ Len(Tokens(i)) >= F
    /\ \A j \in 1..F : FieldValue(ev, j) = PyStr(FieldTokens(i)[j])

\* no later entry of the template file has the composite key of the i-th
LastOfItsKey(i) ==
    \A h \in (i + 1)..Len(t_config.template) :
        t_config.template[h].key # t_config.template[i].key

\* C26: with any delimiter, an index that was built from an entry
\* v_0 <delim> ... <delim> v_(F-1), of which only v_A may contain the
\* delimiter, is hit by an event that carries exactly these field values:
\* the apply rewrites an existing target to the entry's value.
C26_BuildLookupRoundTrip ==
    TemplateApplied =>
        \A i \in 1..Len(t_config.template) :
            ( /\ LastOfItsKey(i)
              /\ Carries(t_prev, i)
              /\ PathExists(t_prev, TargetPath) )
            => /\ t_event = SetAt(t_prev, TargetPath, t_config.template[i].value)
               /\ t_raised = NoError

\* the keys under which __init__ stores the i-th entry of the template file
StoredKeys(i) == RecombinedKeys(t_config.template[i].key, t_config.delimiter, t_config.fields, A)

\* no later entry of the template file is stored under the keys of the i-th
NotRepeated(i) ==
    \A h \in (i + 1)..Len(t_config.template) : StoredKeys(h) # StoredKeys(i)

\* every entry whose keys no later entry repeats is in the index with its
\* own value
Retrievable(index) ==
    \A i \in 1..Len(t_config.template) :
        NotRepeated(i) =>
            /\ PathExists(index, StoredKeys(i))
            /\ GetAt(index, StoredKeys(i)) = t_config.template[i].value

\* C28: once constructed, the index is never changed by an apply on any
\* event, and every entry of the template file whose recombined keys are not
\* repeated by a later entry, entries sharing a key prefix with others
\* included, is and stays retrievable with its own value.
C28_IndexImmutable ==
    [][ /\ t_state = "ready" => (t_mapping' = t_mapping /\ t_state' = "ready")
        /\ t_state' = "ready" => Retrievable(t_mapping') ]_vars

\* two entries share their first key; after an apply that rewrote the
\* target of an event, both are in the index with their own values
C28_Witness ==
    /\ TemplateApplied
    /\ t_event # t_prev
    /\ Len(t_config.template) = 2
    /\ StoredKeys(1)[1] = StoredKeys(2)[1]
    /\ StoredKeys(1) # StoredKeys(2)
    /\ GetAt(t_mapping, StoredKeys(1)) = t_config.template[1].value
    /\ GetAt(t_mapping, StoredKeys(2)) = t_config.template[2].value
    /\ t_config.template[1].value # t_config.template[2].value

====
